---- MODULE Spec2Model ----
(***************************************************************************)
(* A model of hgcal_dev/datasets/hgcal.py: the HGCalDataModule acquisition *)
(* pipeline (download, extract, make_noisy_data, prepare_data), its lazily *)
(* memoised event listings, train_val_test_split, the seed derivation of   *)
(* setup(), and HGCalDataset._get_pc_feat_labels.                          *)
(*                                                                         *)
(* Conventions.  Fractions (event_frac, train_frac, test_frac, noise_level)*)
(* are numerators over Den; with Den a power of two the floating point     *)
(* products the code computes are exact, so int(frac * n) is the truncated *)
(* rational product.  File names are pairs <<stem, ext>>; stems are        *)
(* numbers whose order stands for the lexicographic order of the names.    *)
(* An optional value is <<>> (None) or <<v>>.                              *)
(***************************************************************************)
EXTENDS Integers, Sequences, FiniteSets, TLC

VARIABLES
  \* ---- configuration of the data module (constructor arguments)
  event_frac, train_frac, test_frac,   \* numerators over Den
  noise_level,                         \* numerator over Den
  noise_seed,                          \* a key of NoiseStream
  download_flag,                       \* self._download
  seed_arg,                            \* the seed argument, optional
  num_workers, num_epochs,
  voxel_size, task,
  \* ---- train_val_test_split as a function
  split_in, split_out,
  \* ---- one event and HGCalDataset._get_pc_feat_labels
  ds_event, ds_out,
  \* ---- one event under the noise sampler of make_noisy_data
  ns_y, ns_out,
  \* ---- the file system under data_dir
  remote,               \* the members of the archive behind data_url
  archive,              \* data.tar.gz: "absent", "partial" or "complete"
  raw_dir,              \* names in data_dir/1.0_noise
  noisy_dir,            \* names in data_dir/{noise_level}_noise when it is another directory
  \* ---- per process object state
  _raw_events, _events, \* the memoised listings, None before the first read
  seed,                 \* self.seed
  datasets,             \* train_dataset, val_dataset, test_dataset
  rank,                 \* get_rank()
  \* ---- the prepare_data() call in progress
  pc, pos, ran, result, start, prev_result, calls, interrupted,
  \* ---- history
  base_seed, nsetup, gen, first_raw, first_events, last_read

cfgVars   == <<event_frac, train_frac, test_frac, noise_level, noise_seed,
               download_flag, seed_arg, num_workers, num_epochs, voxel_size, task>>
splitVars == <<split_in, split_out>>
dsVars    == <<ds_event, ds_out>>
nsVars    == <<ns_y, ns_out>>
fsVars    == <<remote, archive, raw_dir, noisy_dir>>
objVars   == <<_raw_events, _events, seed, datasets, rank>>
callVars  == <<pc, pos, ran, result, start, prev_result, calls, interrupted>>
histVars  == <<base_seed, nsetup, gen, first_raw, first_events, last_read>>
vars      == <<cfgVars, splitVars, dsVars, nsVars, fsVars, objVars, callVars, histVars>>

\* Optional values: None is <<>>, a value v is <<v>>.
NoneVal    == <<>>
Some(v)    == <<v>>
IsNone(o)  == o = <<>>
Get(o)     == o[1]

(***************************************************************************)
(* Bounds of the model.                                                    *)
(***************************************************************************)
Den        == 4    \* fractions are k/Den, k in 0..Den
MaxEvents  == 4    \* longest event list given to train_val_test_split
MaxHits    == 2    \* most hits of an event given to _get_pc_feat_labels
MaxNoise   == 6    \* most hits of an event given to the noise sampler
MaxRank    == 2    \* ranks are 0..MaxRank
MaxWorkers == 2
MaxEpochs  == 2
MaxSeed    == 1    \* supplied seeds are 0..MaxSeed
MaxSetups  == 2    \* setup() calls per process
MaxCalls   == 3    \* prepare_data() calls
MaxGen     == 1    \* process restarts

Min(a, b) == IF a < b THEN a ELSE b
Max(a, b) == IF a < b THEN b ELSE a

Fracs == 0..Den

(***************************************************************************)
(* Python primitives.                                                      *)
(***************************************************************************)
\* int(f * n) for the float f = num/Den and the integer n: truncation toward zero.
PyIntMul(num, n) ==
  LET p == num * n
  IN IF p >= 0 THEN p \div Den ELSE -((-p) \div Den)

\* The position a slice bound i denotes in a list of length n.
PyBound(i, n) == IF i < 0 THEN Max(i + n, 0) ELSE Min(i, n)

\* s[lo:hi]
PySlice(s, lo, hi) ==
  LET a == PyBound(lo, Len(s))
      b == PyBound(hi, Len(s))
  IN IF a >= b THEN <<>> ELSE SubSeq(s, a + 1, b)

\* s[:hi] and s[lo:]
PySliceTo(s, hi)   == PySlice(s, 0, hi)
PySliceFrom(s, lo) == PySlice(s, lo, Len(s))

(***************************************************************************)
(* HGCalDataModule._validate_fracs and train_val_test_split.               *)
(***************************************************************************)
_validate_fracs(ef, trf, tef) ==
  /\ \A f \in {ef, trf, tef} : 0 <= f /\ f <= Den
  /\ trf + tef <= Den

num_events_of(events)       == PyIntMul(event_frac, Len(events))
num_train_events_of(events) == PyIntMul(train_frac, num_events_of(events))
num_test_events_of(events)  == PyIntMul(test_frac, num_events_of(events))

train_val_test_split(events) ==
  LET num_events       == num_events_of(events)
      evs              == PySliceTo(events, num_events)
      num_train_events == num_train_events_of(events)
      num_test_events  == num_test_events_of(events)
  IN [train |-> PySliceTo(evs, num_train_events),
      val   |-> PySlice(evs, num_train_events, -num_test_events),
      test  |-> PySliceFrom(evs, -num_test_events)]

(***************************************************************************)
(* HGCalDataset._get_pc_feat_labels.  An event is [x |-> rows, y |-> rows];*)
(* a row of x is <<x, y, z>>, a row of y is <<class, instance>>.           *)
(***************************************************************************)
\* A rounding that sends ties upward (floor(n/d + 1/2)), in place of np.round.
np_round_half_up(n, d) == (2 * n + d) \div (2 * d)

\* np.round(n / d) for d > 0: the nearest integer, ties to the even one.
np_round(n, d) ==
  LET q == n \div d
      r == n % d
  IN IF 2 * r < d THEN q
     ELSE IF 2 * r > d THEN q + 1
     ELSE IF q % 2 = 0 THEN q ELSE q + 1

\* The least element of a non-empty set of integers.
SetMin(S) == CHOOSE m \in S : \A v \in S : m <= v

Axes == 1..3

_get_pc_feat_labels(event, vsize, tsk) ==
  IF tsk \notin {"panoptic", "semantic", "instance"}
  THEN [status |-> "RuntimeError", pc |-> <<>>, feat |-> <<>>, labels |-> <<>>]
  ELSE IF Len(event.x) = 0
  THEN [status |-> "ValueError", pc |-> <<>>, feat |-> <<>>, labels |-> <<>>]
  ELSE
    LET block  == event.x
        n      == Len(block)
        pc0    == [i \in 1..n |-> [a \in Axes |-> np_round(block[i][a], vsize)]]
        mins   == [a \in Axes |-> SetMin({pc0[i][a] : i \in 1..n})]
        pc_    == [i \in 1..n |-> [a \in Axes |-> pc0[i][a] - mins[a]]]
        labels_ == IF tsk = "panoptic" THEN event.y
                   ELSE IF tsk = "semantic" THEN [i \in 1..Len(event.y) |-> event.y[i][1]]
                   ELSE [i \in 1..Len(event.y) |-> event.y[i][2]]
    IN [status |-> "ok", pc |-> pc_, feat |-> block, labels |-> labels_]

(***************************************************************************)
(* The noise sampler: the body of the loop of make_noisy_data.             *)
(* y0 is column 0 of the label array; indices are 0-based as in numpy.     *)
(***************************************************************************)
\* np.where(pred)[0]: the indices, ascending, whose label is in `classes`.
RECURSIVE np_where(_, _, _)
np_where(y0, keep_noise, i) ==
  IF i > Len(y0) THEN <<>>
  ELSE IF (y0[i] = 0) = keep_noise
       THEN <<i - 1>> \o np_where(y0, keep_noise, i + 1)
       ELSE np_where(y0, keep_noise, i + 1)

non_noise_indices(y0) == np_where(y0, FALSE, 1)
noise_indices(y0)     == np_where(y0, TRUE, 1)

\* The low four bits of the first outputs of MT19937 after np.random.seed(s),
\* for the default noise_seed 31 and for the seed 0.
NoiseSeeds == {31, 0}
NoiseStream(s) ==
  IF s = 31
  THEN <<2, 7, 0, 14, 2, 7, 10, 12, 12, 13, 6, 12, 10, 10, 14, 6, 2, 2, 14, 9, 1, 7,
         11, 12, 1, 10, 1, 4, 10, 12, 15, 11, 6, 3, 3, 2, 8, 7, 15, 8, 15, 1, 10, 11,
         4, 11, 15, 8>>
  ELSE <<12, 15, 5, 0, 3, 11, 3, 7, 9, 3, 5, 2, 4, 7, 6, 8, 8, 12, 10, 1, 6, 7, 7, 14,
         8, 1, 5, 9, 13, 8, 9, 4, 3, 0, 3, 5, 14, 15, 15, 0, 2, 3, 8, 1, 3, 13, 3, 3>>

\* The smallest 2^j - 1 >= rng, for rng < 16: the mask of the bounded draw.
BitMask(rng) ==
  IF rng = 0 THEN 0 ELSE IF rng < 2 THEN 1 ELSE IF rng < 4 THEN 3
  ELSE IF rng < 8 THEN 7 ELSE 15

\* v & mask for v < 16 and mask = 2^j - 1.
MaskBits(v, mask) == v % (mask + 1)

\* randint(0, k, size): draw, mask, reject values above k - 1.
RECURSIVE randint(_, _, _, _)
randint(stream, at, k, size) ==
  IF size = 0 \/ at > Len(stream) THEN <<>>
  ELSE LET v == MaskBits(stream[at], BitMask(k - 1))
       IN IF v > k - 1 THEN randint(stream, at + 1, k, size)
          ELSE <<v>> \o randint(stream, at + 1, k, size - 1)

\* np.random.seed(s); np.random.choice(a, size=size): with replacement.
np_random_choice(s, a, size) ==
  LET idx == randint(NoiseStream(s), 1, Len(a), size)
  IN [j \in 1..Len(idx) |-> a[idx[j] + 1]]

selected_noise_indices(y0) ==
  np_random_choice(noise_seed, noise_indices(y0),
                   PyIntMul(noise_level, Len(noise_indices(y0))))

selected_indices(y0) == non_noise_indices(y0) \o selected_noise_indices(y0)

(***************************************************************************)
(* The file system under data_dir, and the objects.                        *)
(* A member of the archive is <<directory, stem, ext>>; extraction writes  *)
(* it under its basename <<stem, ext>>.  The content of an event file is   *)
(* fixed by its stem (event files are immutable), so a directory is the    *)
(* set of the names in it.                                                 *)
(***************************************************************************)
Proc == {"p1", "p2"}
Main == "p1"          \* the process that runs prepare_data()

Names == {<<1, "npz">>, <<2, "npz">>, <<3, "txt">>}

\* Column 0 of the labels of the event file with this stem.
RawLabels(stem) == IF stem = 1 THEN <<1, 0, 0>> ELSE <<0, 0>>

\* The archives data_url may serve.
Archives ==
  { << <<"", 1, "npz">> >>,
    << <<"", 2, "npz">> >>,
    << <<"d", 1, "npz">>, <<"d", 2, "npz">> >>,
    << <<"", 3, "txt">>, <<"d", 1, "npz">> >> }

\* os.path.basename(member.name)
Basename(member) == <<member[2], member[3]>>

\* self.noisy_data_dir is self.raw_data_dir when noise_level is 1.0:
\* both are data_dir / '1.0_noise'.
SameDir == noise_level = Den
NoisyFiles == IF SameDir THEN raw_dir ELSE noisy_dir

\* A test for the archive under a name that is never there.
is_downloaded_wrong_name == FALSE

\* A test for extraction that looks for event files only.
is_extracted_npz_only == {n \in raw_dir : n[2] = "npz"} # {}

is_downloaded     == archive # "absent"
is_extracted      == raw_dir # {}
noisy_data_exists == NoisyFiles # {}

\* sorted(dir.glob('*.npz'))
RECURSIVE SortByName(_)
SortByName(S) ==
  IF S = {} THEN <<>>
  ELSE LET m == CHOOSE n \in S : \A o \in S : n[1] <= o[1]
       IN <<m>> \o SortByName(S \ {m})

GlobNpz(dir) == {n \in dir : n[2] = "npz"}
SortedNpz(dir) == SortByName(GlobNpz(dir))

\* A raw_events property that lists the directory at every read.
raw_events_no_memo(p) == Some(SortedNpz(raw_dir))

\* The value the raw_events property returns to process p, and the cache after it.
raw_events_cache(p) ==
  IF IsNone(_raw_events[p]) THEN Some(SortedNpz(raw_dir)) ELSE _raw_events[p]
raw_events(p) == Get(raw_events_cache(p))

\* The same for the events property.
events_cache(p) ==
  IF IsNone(_events[p]) THEN Some(SortedNpz(NoisyFiles)) ELSE _events[p]
events(p) == Get(events_cache(p))

\* last_read records the latest read of a listing by a caller: the property, the
\* sequence returned, whether the read computed it, and the directory as it was.
NoRead == [which |-> "none", p |-> Main, val |-> <<>>, fresh |-> FALSE, dir |-> {}]

\* A caller reads self.raw_events.
ReadRawEvents(p) ==
  /\ pc = "idle"
  /\ _raw_events' = [_raw_events EXCEPT ![p] = raw_events_cache(p)]
  /\ last_read' = [which |-> "raw_events", p |-> p, val |-> raw_events(p),
                   fresh |-> IsNone(_raw_events[p]), dir |-> GlobNpz(raw_dir)]
  /\ first_raw' = IF IsNone(first_raw[p])
                   THEN [first_raw EXCEPT ![p] = Some(raw_events(p))] ELSE first_raw
  /\ UNCHANGED <<cfgVars, splitVars, dsVars, nsVars, fsVars, callVars>>
  /\ UNCHANGED <<_events, seed, datasets, rank, base_seed, nsetup, gen, first_events>>

\* A caller reads self.events.
ReadEvents(p) ==
  /\ pc = "idle"
  /\ _events' = [_events EXCEPT ![p] = events_cache(p)]
  /\ last_read' = [which |-> "events", p |-> p, val |-> events(p),
                   fresh |-> IsNone(_events[p]), dir |-> GlobNpz(NoisyFiles)]
  /\ first_events' = IF IsNone(first_events[p])
                      THEN [first_events EXCEPT ![p] = Some(events(p))] ELSE first_events
  /\ UNCHANGED <<cfgVars, splitVars, dsVars, nsVars, fsVars, callVars>>
  /\ UNCHANGED <<_raw_events, seed, datasets, rank, base_seed, nsetup, gen, first_raw>>

\* The names the changes from outside are drawn from.
ExternalNames == {<<2, "npz">>}

\* Something outside the program adds a file to, or removes one from, a directory.
ExternalChange ==
  /\ \E n \in ExternalNames :
       \/ /\ raw_dir' = IF n \in raw_dir THEN raw_dir \ {n} ELSE raw_dir \cup {n}
          /\ UNCHANGED noisy_dir
       \/ /\ ~SameDir
          /\ noisy_dir' = IF n \in noisy_dir THEN noisy_dir \ {n} ELSE noisy_dir \cup {n}
          /\ UNCHANGED raw_dir
  /\ UNCHANGED <<remote, archive>>
  /\ UNCHANGED <<cfgVars, splitVars, dsVars, nsVars, objVars, callVars, histVars>>

\* The process ends and a new one constructs the data module again (__init__):
\* the listings are not computed, the seed is the constructor argument, and no
\* prepare_data() call is in progress.  The directories already exist.
Restart ==
  /\ gen < MaxGen
  /\ gen' = gen + 1
  /\ _raw_events' = [p \in Proc |-> NoneVal]
  /\ _events' = [p \in Proc |-> NoneVal]
  /\ seed' = [p \in Proc |-> seed_arg]
  /\ datasets' = [p \in Proc |-> [train |-> NoneVal, val |-> NoneVal, test |-> NoneVal]]
  /\ pc' = "idle" /\ pos' = 0
  /\ result' = IF pc = "idle" THEN result ELSE "Interrupted"
  /\ interrupted' = (interrupted \/ pc # "idle")
  /\ first_raw' = [p \in Proc |-> NoneVal]
  /\ first_events' = [p \in Proc |-> NoneVal]
  /\ last_read' = NoRead
  /\ base_seed' = [p \in Proc |-> NoneVal]
  /\ nsetup' = [p \in Proc |-> 0]
  /\ UNCHANGED <<cfgVars, splitVars, dsVars, nsVars, fsVars, rank>>
  /\ UNCHANGED <<ran, start, prev_result, calls>>

(***************************************************************************)
(* prepare_data(), run by Main.  pc is the stage the call is in; pos is    *)
(* the position inside the stage.  ran lists the stages the call entered,  *)
(* start is the file system as the call found it, result is how the call   *)
(* ended ("running" until then).                                           *)
(***************************************************************************)
Snapshot ==
  [noisy_data_exists |-> noisy_data_exists, is_extracted |-> is_extracted,
   is_downloaded |-> is_downloaded,
   archive |-> archive, raw_dir |-> raw_dir, noisy_dir |-> noisy_dir]

\* The call, up to the first stage it enters (or to its return or raise).
prepare_data ==
  /\ pc = "idle"
  /\ calls < MaxCalls
  /\ calls' = calls + 1
  /\ prev_result' = result
  /\ start' = Snapshot
  /\ pos' = 0
  /\ IF ~noisy_data_exists
     THEN IF ~is_extracted
          THEN IF ~is_downloaded
               THEN IF download_flag
                    THEN pc' = "download" /\ ran' = <<"download">> /\ result' = "running"
                    ELSE pc' = "idle" /\ ran' = <<>> /\ result' = "RuntimeError"
               ELSE pc' = "extract" /\ ran' = <<"extract">> /\ result' = "running"
          ELSE pc' = "make_noisy_data" /\ ran' = <<"make_noisy_data">> /\ result' = "running"
     ELSE pc' = "idle" /\ ran' = <<>> /\ result' = "ok"
  /\ UNCHANGED <<cfgVars, splitVars, dsVars, nsVars, fsVars, objVars, histVars, interrupted>>

\* download(): the request is answered and data.tar.gz is opened for writing.
download_open ==
  /\ pc = "download" /\ pos = 0
  /\ archive' = "partial"
  /\ pos' = 1
  /\ UNCHANGED <<remote, raw_dir, noisy_dir>>
  /\ UNCHANGED <<cfgVars, splitVars, dsVars, nsVars, objVars, histVars>>
  /\ UNCHANGED <<pc, ran, result, start, prev_result, calls, interrupted>>

\* download(): raise_for_status() raises, or the transfer fails after the file
\* was opened.  The error leaves prepare_data().
download_fail ==
  /\ pc = "download"
  /\ pc' = "idle" /\ pos' = 0
  /\ result' = "HTTPError"
  /\ UNCHANGED <<cfgVars, splitVars, dsVars, nsVars, fsVars, objVars, histVars>>
  /\ UNCHANGED <<ran, start, prev_result, calls, interrupted>>

\* download(): the last chunk is written; prepare_data() goes on to extract().
download_done ==
  /\ pc = "download" /\ pos = 1
  /\ archive' = "complete"
  /\ pc' = "extract" /\ pos' = 0
  /\ ran' = Append(ran, "extract")
  /\ UNCHANGED <<remote, raw_dir, noisy_dir>>
  /\ UNCHANGED <<cfgVars, splitVars, dsVars, nsVars, objVars, histVars>>
  /\ UNCHANGED <<result, start, prev_result, calls, interrupted>>

\* extract(): tarfile.open and getmembers(); a truncated archive cannot be read.
extract_open ==
  /\ pc = "extract" /\ pos = 0
  /\ IF archive = "complete"
     THEN pc' = pc /\ pos' = 1 /\ result' = result
     ELSE pc' = "idle" /\ pos' = 0 /\ result' = "ReadError"
  /\ UNCHANGED <<cfgVars, splitVars, dsVars, nsVars, fsVars, objVars, histVars>>
  /\ UNCHANGED <<ran, start, prev_result, calls, interrupted>>

\* extract(): one member is written to the raw directory under its basename.
extract_member ==
  /\ pc = "extract" /\ pos >= 1 /\ pos <= Len(remote)
  /\ raw_dir' = raw_dir \cup {Basename(remote[pos])}
  /\ pos' = pos + 1
  /\ UNCHANGED <<remote, archive, noisy_dir>>
  /\ UNCHANGED <<cfgVars, splitVars, dsVars, nsVars, objVars, histVars>>
  /\ UNCHANGED <<pc, ran, result, start, prev_result, calls, interrupted>>

\* extract() returns; prepare_data() goes on to make_noisy_data().
extract_done ==
  /\ pc = "extract" /\ pos = Len(remote) + 1
  /\ pc' = "make_noisy_data" /\ pos' = 0
  /\ ran' = Append(ran, "make_noisy_data")
  /\ UNCHANGED <<cfgVars, splitVars, dsVars, nsVars, fsVars, objVars, histVars>>
  /\ UNCHANGED <<result, start, prev_result, calls, interrupted>>

\* make_noisy_data(): returns at once when noise_level is 1.0, else starts the
\* loop over self.raw_events (which computes the listing if it is not cached).
make_noisy_data_begin ==
  /\ pc = "make_noisy_data" /\ pos = 0
  /\ IF SameDir
     THEN /\ pc' = "idle" /\ pos' = 0 /\ result' = "ok"
          /\ UNCHANGED _raw_events
     ELSE /\ pc' = pc /\ pos' = 1 /\ result' = result
          /\ _raw_events' = [_raw_events EXCEPT ![Main] = raw_events_cache(Main)]
  /\ UNCHANGED <<cfgVars, splitVars, dsVars, nsVars, fsVars, histVars>>
  /\ UNCHANGED <<_events, seed, datasets, rank>>
  /\ UNCHANGED <<ran, start, prev_result, calls, interrupted>>

\* make_noisy_data(): one event of the listing: np.load fails when the file is
\* gone, and the sub-sampled event is saved unless the selection is empty.
make_noisy_data_event ==
  /\ pc = "make_noisy_data" /\ pos >= 1 /\ pos <= Len(raw_events(Main))
  /\ LET event_path == raw_events(Main)[pos]
     IN IF event_path \notin raw_dir
        THEN /\ pc' = "idle" /\ pos' = 0 /\ result' = "FileNotFoundError"
             /\ UNCHANGED noisy_dir
        ELSE /\ pc' = pc /\ pos' = pos + 1 /\ result' = result
             /\ noisy_dir' = IF Len(selected_indices(RawLabels(event_path[1]))) > 0
                              THEN noisy_dir \cup {<<event_path[1], "npz">>}
                              ELSE noisy_dir
  /\ UNCHANGED <<remote, archive, raw_dir>>
  /\ UNCHANGED <<cfgVars, splitVars, dsVars, nsVars, objVars, histVars>>
  /\ UNCHANGED <<ran, start, prev_result, calls, interrupted>>

\* make_noisy_data() and prepare_data() return.
make_noisy_data_done ==
  /\ pc = "make_noisy_data" /\ pos = Len(raw_events(Main)) + 1
  /\ pc' = "idle" /\ pos' = 0 /\ result' = "ok"
  /\ UNCHANGED <<cfgVars, splitVars, dsVars, nsVars, fsVars, objVars, histVars>>
  /\ UNCHANGED <<ran, start, prev_result, calls, interrupted>>

\* The call is interrupted (an exception from outside, such as KeyboardInterrupt,
\* leaves prepare_data()); the object lives on.
Interrupt ==
  /\ pc # "idle"
  /\ pc' = "idle" /\ pos' = 0
  /\ result' = "Interrupted"
  /\ interrupted' = TRUE
  /\ UNCHANGED <<cfgVars, splitVars, dsVars, nsVars, fsVars, objVars, histVars>>
  /\ UNCHANGED <<ran, start, prev_result, calls>>

(***************************************************************************)
(* setup(stage), run by every process.                                     *)
(***************************************************************************)
Stages == {"fit", "test", "None"}

\* rank * num_workers * num_epochs
seed_offset(p) == rank[p] * num_workers * num_epochs

HGCalDataset(vs, evs, t) == [voxel_size |-> vs, events |-> evs, task |-> t]

\* initial is torch.initial_seed() % (2**32 - 1), read only when self.seed is None.
\* pl.seed_everything(self.seed) seeds the generators of the libraries and is
\* not part of the state.
setup(p, stage, initial) ==
  LET seed0  == IF IsNone(seed[p]) THEN initial ELSE Get(seed[p])
      splits == train_val_test_split(events(p))
  IN /\ pc = "idle"
     /\ nsetup[p] < MaxSetups
     /\ seed' = [seed EXCEPT ![p] = Some(seed0 + seed_offset(p))]
     /\ _events' = [_events EXCEPT ![p] = events_cache(p)]
     /\ datasets' = [datasets EXCEPT ![p] =
          [train |-> IF stage \in {"fit", "None"}
                     THEN Some(HGCalDataset(voxel_size, splits.train, task))
                     ELSE datasets[p].train,
           val   |-> IF stage \in {"fit", "None"}
                     THEN Some(HGCalDataset(voxel_size, splits.val, task))
                     ELSE datasets[p].val,
           test  |-> IF stage \in {"test", "None"}
                     THEN Some(HGCalDataset(voxel_size, splits.test, task))
                     ELSE datasets[p].test]]
     /\ base_seed' = IF nsetup[p] = 0
                      THEN [base_seed EXCEPT ![p] = Some(seed0)] ELSE base_seed
     /\ nsetup' = [nsetup EXCEPT ![p] = nsetup[p] + 1]
     /\ first_events' = IF IsNone(first_events[p])
                         THEN [first_events EXCEPT ![p] = Some(events(p))]
                         ELSE first_events
     /\ UNCHANGED <<cfgVars, splitVars, dsVars, nsVars, fsVars, callVars>>
     /\ UNCHANGED <<_raw_events, rank, gen, first_raw, last_read>>

(***************************************************************************)
(* The functions applied to one input.                                     *)
(***************************************************************************)
\* train_val_test_split(split_in)
split_events ==
  /\ IsNone(split_out)
  /\ split_out' = Some(train_val_test_split(split_in))
  /\ UNCHANGED <<cfgVars, split_in, dsVars, nsVars, fsVars, objVars, callVars, histVars>>

\* HGCalDataset._get_pc_feat_labels(index) on the event the file holds.
get_pc_feat_labels ==
  /\ IsNone(ds_out)
  /\ ds_out' = Some(_get_pc_feat_labels(ds_event, voxel_size, task))
  /\ UNCHANGED <<cfgVars, splitVars, ds_event, nsVars, fsVars, objVars, callVars, histVars>>

\* The body of the loop of make_noisy_data on one event.
sample_event ==
  /\ IsNone(ns_out)
  /\ ~SameDir
  /\ ns_out' = Some(selected_indices(ns_y))
  /\ UNCHANGED <<cfgVars, splitVars, dsVars, ns_y, fsVars, objVars, callVars, histVars>>

(***************************************************************************)
(* Initial states.                                                         *)
(***************************************************************************)
IdleSplit == split_in = <<>> /\ split_out = NoneVal
IdleDs    == ds_event = [x |-> <<>>, y |-> <<>>] /\ ds_out = NoneVal
IdleNs    == ns_y = <<>> /\ ns_out = NoneVal
EmptyFs   == remote = <<>> /\ archive = "absent" /\ raw_dir = {} /\ noisy_dir = {}

\* The objects as __init__ leaves them.
NewObjects ==
  /\ _raw_events = [p \in Proc |-> NoneVal]
  /\ _events = [p \in Proc |-> NoneVal]
  /\ seed = [p \in Proc |-> seed_arg]
  /\ datasets = [p \in Proc |-> [train |-> NoneVal, val |-> NoneVal, test |-> NoneVal]]

NoCall ==
  /\ pc = "idle" /\ pos = 0 /\ ran = <<>> /\ result = "none" /\ prev_result = "none"
  /\ start = Snapshot
  /\ calls = 0 /\ interrupted = FALSE

NoHistory ==
  /\ base_seed = [p \in Proc |-> NoneVal]
  /\ nsetup = [p \in Proc |-> 0]
  /\ gen = 0
  /\ first_raw = [p \in Proc |-> NoneVal]
  /\ first_events = [p \in Proc |-> NoneVal]
  /\ last_read = NoRead

\* The defaults of the constructor arguments a specification does not vary
\* (train_frac and test_frac, 0.8 and 0.1 in the code, are not multiples of
\* 1/Den and are replaced by 1/2 and 1/4).
DefaultFracs  == event_frac = Den /\ train_frac = Den \div 2 /\ test_frac = Den \div 4
DefaultNoise  == noise_level = Den /\ noise_seed = 31 /\ download_flag = FALSE
DefaultSeed   == seed_arg = NoneVal /\ num_workers = 1 /\ num_epochs = 1
DefaultDs     == voxel_size = 10 /\ task = "class"
DefaultRank   == rank = [p \in Proc |-> IF p = Main THEN 0 ELSE 1]

\* train_val_test_split: every event list and every accepted fraction triple.
EventList(n) == [i \in 1..n |-> <<i, "npz">>]

InitSplit ==
  /\ event_frac \in Fracs /\ train_frac \in Fracs /\ test_frac \in Fracs
  /\ _validate_fracs(event_frac, train_frac, test_frac)
  /\ DefaultNoise /\ DefaultSeed /\ DefaultDs /\ DefaultRank
  /\ \E n \in 0..MaxEvents : split_in = EventList(n)
  /\ split_out = NoneVal
  /\ IdleDs /\ IdleNs /\ EmptyFs /\ NewObjects /\ NoCall /\ NoHistory

NextSplit == split_events
SpecSplit == InitSplit /\ [][NextSplit]_vars

\* _get_pc_feat_labels: events of at most MaxHits hits.
CoordRows  == {<<x, y, 5>> : x \in {-5, 5, 7, 15}, y \in {5, 25}}
LabelRows  == {<<0, 0>>, <<1, 2>>}
VoxelSizes == {4, 10}
Tasks      == {"class", "panoptic", "semantic", "instance"}

InitDs ==
  /\ DefaultFracs /\ DefaultNoise /\ DefaultSeed /\ DefaultRank
  /\ voxel_size \in VoxelSizes
  /\ task \in Tasks
  /\ \E n \in 0..MaxHits :
       \E xs \in [1..n -> CoordRows], ys \in [1..n -> LabelRows] :
         ds_event = [x |-> xs, y |-> ys]
  /\ ds_out = NoneVal
  /\ IdleSplit /\ IdleNs /\ EmptyFs /\ NewObjects /\ NoCall /\ NoHistory

NextDs == get_pc_feat_labels
SpecDs == InitDs /\ [][NextDs]_vars

\* The noise sampler: events of at most MaxNoise hits, classes 0 (noise), 1, 2.
InitNoise ==
  /\ DefaultFracs /\ DefaultSeed /\ DefaultDs /\ DefaultRank
  /\ noise_level \in Fracs
  /\ noise_seed \in NoiseSeeds
  /\ download_flag = FALSE
  /\ \E n \in 0..MaxNoise : ns_y \in [1..n -> {0, 1, 2}]
  /\ ns_out = NoneVal
  /\ IdleSplit /\ IdleDs /\ EmptyFs /\ NewObjects /\ NoCall /\ NoHistory

NextNoise == sample_event
SpecNoise == InitNoise /\ [][NextNoise]_vars

\* setup() in two processes of distinct ranks over a prepared directory.
InitSeed ==
  /\ DefaultFracs /\ DefaultDs
  /\ noise_level = 0 /\ noise_seed = 31 /\ download_flag = FALSE
  /\ seed_arg \in {NoneVal} \cup {Some(v) : v \in 0..MaxSeed}
  /\ num_workers \in 0..MaxWorkers
  /\ num_epochs \in 0..MaxEpochs
  /\ rank \in {r \in [Proc -> 0..MaxRank] : \A p, q \in Proc : p # q => r[p] # r[q]}
  /\ remote = << <<"d", 1, "npz">>, <<"d", 2, "npz">> >>
  /\ archive = "complete"
  /\ raw_dir = {<<1, "npz">>, <<2, "npz">>}
  /\ noisy_dir = {<<1, "npz">>, <<2, "npz">>}
  /\ IdleSplit /\ IdleDs /\ IdleNs /\ NewObjects /\ NoCall /\ NoHistory

NextSeed == \E p \in Proc, stage \in Stages, initial \in 0..MaxSeed : setup(p, stage, initial)
SpecSeed == InitSeed /\ [][NextSeed]_vars

\* The acquisition pipeline of one process: any archive, a local copy of it or
\* none, download enabled or not, any noise level; nothing extracted yet.
Init ==
  /\ DefaultFracs /\ DefaultSeed /\ DefaultDs /\ DefaultRank
  /\ noise_level \in Fracs
  /\ noise_seed = 31
  /\ download_flag \in BOOLEAN
  /\ remote \in Archives
  /\ archive \in {"absent", "complete"}
  /\ raw_dir = {} /\ noisy_dir = {}
  /\ IdleSplit /\ IdleDs /\ IdleNs /\ NewObjects /\ NoCall /\ NoHistory

Next ==
  \/ prepare_data
  \/ download_open
  \/ download_fail
  \/ download_done
  \/ extract_open
  \/ extract_member
  \/ extract_done
  \/ make_noisy_data_begin
  \/ make_noisy_data_event
  \/ make_noisy_data_done
  \/ Interrupt
  \/ Restart
  \/ ReadRawEvents(Main)
  \/ ReadEvents(Main)

Spec == Init /\ [][Next]_vars

\* The same with changes to the directories from outside the program, for one
\* archive, download enabled, and a noise level of 1/2 or 1.0.
InitListing ==
  /\ Init
  /\ remote = << <<"d", 1, "npz">>, <<"d", 2, "npz">> >>
  /\ download_flag
  /\ noise_level \in {Den \div 2, Den}

NextListing ==
  \/ prepare_data
  \/ download_open
  \/ download_done
  \/ extract_open
  \/ extract_member
  \/ extract_done
  \/ make_noisy_data_begin
  \/ make_noisy_data_event
  \/ make_noisy_data_done
  \/ ReadRawEvents(Main)
  \/ ReadEvents(Main)
  \/ ExternalChange
SpecListing == InitListing /\ [][NextListing]_vars

(***************************************************************************)
(* The claims.                                                             *)
(***************************************************************************)
\* floor(num/Den * n) for num, n >= 0
FloorFrac(num, n) == (num * n) \div Den

\* The elements of a sequence.
Range(s) == {s[i] : i \in 1..Len(s)}

\* C1: for every event list and every accepted fraction triple,
\* train_val_test_split returns train = events[0:n_train],
\* val = events[n_train:n_events-n_test] and test = events[n_events-n_test:n_events],
\* with n_events = floor(event_frac*N), n_train = floor(train_frac*n_events) and
\* n_test = floor(test_frac*n_events): pairwise disjoint, contiguous, and of
\* lengths that sum to n_events (n_test = 0 and n_train = 0 included).
C1_SplitSlices ==
  ~IsNone(split_out) =>
    LET n_events == FloorFrac(event_frac, Len(split_in))
        n_train  == FloorFrac(train_frac, n_events)
        n_test   == FloorFrac(test_frac, n_events)
        out      == Get(split_out)
    IN /\ out.train = SubSeq(split_in, 1, n_train)
       /\ out.val   = SubSeq(split_in, n_train + 1, n_events - n_test)
       /\ out.test  = SubSeq(split_in, n_events - n_test + 1, n_events)
       /\ Len(out.train) + Len(out.val) + Len(out.test) = n_events
       /\ Range(out.train) \cap Range(out.val) = {}
       /\ Range(out.train) \cap Range(out.test) = {}
       /\ Range(out.val) \cap Range(out.test) = {}

\* The directories and the archive as the current (or last) call found them.
NoisyAtStart == IF SameDir THEN start.raw_dir ELSE start.noisy_dir
FsUnchangedSinceStart ==
  archive = start.archive /\ raw_dir = start.raw_dir /\ noisy_dir = start.noisy_dir

\* C2: prepare_data is idempotent: after a call that returned without error, the
\* call that follows runs none of download, extract and make_noisy_data.
C2_Idempotent ==
  (calls >= 2 /\ prev_result = "ok" /\ ~interrupted) => ran = <<>>

\* The final state of an acquisition: the archive is complete, every member of
\* it is in the raw directory, and every raw event whose selection is not empty
\* has its noise-filtered file.
AcquisitionComplete ==
  /\ archive = "complete"
  /\ \A i \in 1..Len(remote) : Basename(remote[i]) \in raw_dir
  /\ \A n \in GlobNpz(raw_dir) :
       Len(selected_indices(RawLabels(n[1]))) > 0 => <<n[1], "npz">> \in NoisyFiles

\* C3: after an interrupted prepare_data(), a prepare_data() that returns
\* normally leaves the final state of an uninterrupted run.
C3_Recoverable ==
  (interrupted /\ result = "ok") => AcquisitionComplete

\* C4: with noise_level < 1.0 the retained indices hold every non-noise index
\* exactly once and exactly floor(noise_level * k) noise indices, k the number
\* of noise hits, and those noise indices are pairwise distinct.
C4_NoiseSample ==
  ~IsNone(ns_out) =>
    LET sel      == Get(ns_out)
        Idx      == 0..(Len(ns_y) - 1)
        Noise    == {i \in Idx : ns_y[i + 1] = 0}
        Count(i) == Cardinality({j \in 1..Len(sel) : sel[j] = i})
    IN /\ Range(sel) \subseteq Idx
       /\ \A i \in Idx \ Noise : Count(i) = 1
       /\ Cardinality({j \in 1..Len(sel) : sel[j] \in Noise})
            = FloorFrac(noise_level, Cardinality(Noise))
       /\ \A i \in Noise : Count(i) <= 1

BothSetUpOnce == \A p \in Proc : nsetup[p] = 1

\* C5: for every supplied base seed and every num_workers and num_epochs, two
\* processes of distinct ranks that each call setup() once end with distinct
\* values of self.seed.
C5_DistinctSeeds ==
  (BothSetUpOnce /\ ~IsNone(seed_arg)) =>
    \A p, q \in Proc : p # q => seed[p] # seed[q]

\* C6: after one or more setup() calls self.seed is
\* base_seed + rank * num_workers * num_epochs.
C6_SeedFixed ==
  \A p \in Proc :
    nsetup[p] >= 1 =>
      Get(seed[p]) = Get(base_seed[p]) + rank[p] * num_workers * num_epochs

\* r is n/d rounded to the nearest integer, ties to the even one (d > 0).
NearestEven(r, n, d) ==
  LET e == IF r * d >= n THEN r * d - n ELSE n - r * d
  IN 2 * e <= d /\ (2 * e = d => r % 2 = 0)

ShiftRange == -25..25

ExampleRows == << <<5, 5, 5>>, <<15, 25, 5>> >>
IsExample(out) ==
  out.status = "ok" /\ voxel_size = 10 /\ ds_event.x = ExampleRows

\* C7 as stated: the example of the specification: voxel_size 10 and the hits
\* (5,5,5), (15,25,5) give (0,0,0), (1,2,0).
C7_Example_AsStated ==
  (~IsNone(ds_out) /\ IsExample(Get(ds_out))) =>
    Get(ds_out).pc = << <<0, 0, 0>>, <<1, 2, 0>> >>

\* C7 (amended): for a non-empty event and a positive voxel_size the
\* coordinates are round(xyz / voxel_size), ties rounded to the even integer,
\* translated per axis so that the minimum on each axis is 0; voxel_size 10
\* and the hits (5,5,5), (15,25,5) give (0,0,0), (2,2,0).
C7_Quantized ==
  (~IsNone(ds_out) /\ Get(ds_out).status = "ok") =>
    LET out == Get(ds_out)
        n   == Len(ds_event.x)
    IN /\ Len(out.pc) = n
       /\ \A a \in Axes :
            /\ \E i \in 1..n : out.pc[i][a] = 0
            /\ \A i \in 1..n : out.pc[i][a] >= 0
            /\ \E shift \in ShiftRange :
                 \A i \in 1..n :
                   NearestEven(out.pc[i][a] + shift, ds_event.x[i][a], voxel_size)
       /\ (IsExample(out) => out.pc = << <<0, 0, 0>>, <<2, 2, 0>> >>)

C7_Witness == ~IsNone(ds_out) /\ IsExample(Get(ds_out))

\* C8: prepare_data() raises the missing-data error exactly when it found the
\* noise-filtered directory empty, the raw directory empty, no archive, and
\* download is disabled; then no stage ran and nothing on disk changed.
MissingAtStart ==
  /\ NoisyAtStart = {} /\ start.raw_dir = {} /\ start.archive = "absent"
  /\ ~download_flag

C8_MissingData ==
  calls >= 1 =>
    /\ (result = "RuntimeError") <=> MissingAtStart
    /\ result = "RuntimeError" => (ran = <<>> /\ FsUnchangedSinceStart)

C8_Witness == calls >= 1 /\ result = "RuntimeError" /\ MissingAtStart

\* C9: each listing is computed once, at its first read, from the directory as
\* it is then, sorted ascending by name; it never changes afterwards; every read
\* returns the sequence the first read returned; and a step that computes one
\* listing leaves the other as it was.
Ascending(l) == \A i \in 1..(Len(l) - 1) : l[i][1] < l[i + 1][1]

ListingsState ==
  /\ \A p \in Proc :
       /\ ~IsNone(_raw_events[p]) => Ascending(Get(_raw_events[p]))
       /\ ~IsNone(_events[p]) => Ascending(Get(_events[p]))
  /\ last_read.which = "raw_events" =>
       /\ last_read.val = Get(first_raw[last_read.p])
       /\ last_read.val = Get(_raw_events[last_read.p])
  /\ last_read.which = "events" =>
       /\ last_read.val = Get(first_events[last_read.p])
       /\ last_read.val = Get(_events[last_read.p])

ListingsStep ==
  \A p \in Proc :
    /\ ~IsNone(_raw_events[p]) => _raw_events'[p] = _raw_events[p]
    /\ ~IsNone(_events[p]) => _events'[p] = _events[p]
    /\ (IsNone(_raw_events[p]) /\ ~IsNone(_raw_events'[p])) =>
         /\ Range(Get(_raw_events'[p])) = GlobNpz(raw_dir)
         /\ _events' = _events
    /\ (IsNone(_events[p]) /\ ~IsNone(_events'[p])) =>
         /\ Range(Get(_events'[p])) = GlobNpz(NoisyFiles)
         /\ _raw_events' = _raw_events

C9_Listings == [](ListingsState) /\ [][ListingsStep]_vars

\* A read of raw_events that did not compute the listing returned a sequence
\* that is no longer the content of the directory.
C9_Witness ==
  /\ last_read.which = "raw_events" /\ ~last_read.fresh
  /\ Range(last_read.val) # last_read.dir

\* The conditions under which each stage runs, on the state the call found.
RunsMakeNoisy == NoisyAtStart = {}
RunsExtract   == RunsMakeNoisy /\ start.raw_dir = {}
RunsDownload  == RunsExtract /\ start.archive = "absent" /\ download_flag
StagesIff ==
  /\ ("make_noisy_data" \in Range(ran)) <=> RunsMakeNoisy
  /\ ("extract" \in Range(ran)) <=> RunsExtract
  /\ ("download" \in Range(ran)) <=> RunsDownload

InOrder ==
  ran \in { <<>>, <<"download">>, <<"download", "extract">>,
            <<"download", "extract", "make_noisy_data">>,
            <<"extract">>, <<"extract", "make_noisy_data">>, <<"make_noisy_data">> }

\* C10 as stated: in every prepare_data() execution (here: every call that
\* ended by itself, normally or with an error) the stages run in order and each
\* runs if and only if its condition held when the call began.
C10_Stages_AsStated ==
  (calls >= 1 /\ result \in {"ok", "RuntimeError", "HTTPError", "ReadError"}) =>
    (InOrder /\ StagesIff)

\* C10 (amended): in every prepare_data() execution the stages that run occur in
\* the order download, extract, make_noisy_data, and a stage runs only when its
\* condition held when the call began; in an execution that returns normally
\* each stage runs if and only if its condition held; when the noise-filtered
\* directory is not empty prepare_data() does nothing.
C10_Stages ==
  calls >= 1 =>
    /\ InOrder
    /\ "make_noisy_data" \in Range(ran) => RunsMakeNoisy
    /\ "extract" \in Range(ran) => RunsExtract
    /\ "download" \in Range(ran) => RunsDownload
    /\ result = "ok" => StagesIff
    /\ NoisyAtStart # {} => (ran = <<>> /\ result = "ok" /\ FsUnchangedSinceStart)

C10_Witness ==
  result = "ok" /\ ran = <<"download", "extract", "make_noisy_data">>

====
